---- MODULE Spec2Model ----
(***************************************************************************)
(* Model of the MCP HTTP adapter of packages/mcp-core/mcp_http_adapter.py. *)
(* The file holds several re-implementations of the same gateway; three of *)
(* them are modelled, each under the line its /execute handler starts at:  *)
(*   "v253"   module of lines 89-344   (dry-run first, approval through    *)
(*            _persist_approval_request, background through req.background)*)
(*   "v407"   module of lines 346-536  (approval, dry-run, background      *)
(*            through arguments["_background"])                            *)
(*   "v1347"  module of lines 1223-1423 (token bucket for CRITICAL tools,  *)
(*            approval, dry-run, synchronous call)                         *)
(* A behaviour is a run of one of them (variable adapter, fixed by Init).  *)
(* Spec runs the /execute handlers, SpecBucket the token bucket over time, *)
(* SpecRegistry the registry builds with /health and /openapi, SpecNamed   *)
(* the /execute/{tool_name} route next to /execute, SpecBackground the     *)
(* scheduled tasks, SpecInvoke a synchronous provider, SpecTiers the lower *)
(* tiers, SpecGovernance every governance shape, SpecClock a clock that    *)
(* steps back and SpecConcurrent requests that arrive together.            *)
(* Time is in whole seconds; the bucket's float token count is kept exact  *)
(* as the integer tokens * refill_seconds.                                 *)
(***************************************************************************)
EXTENDS Integers, Sequences, FiniteSets, TLC

None == "None"

(* ------------------------------ bounds -------------------------------- *)
MaxNow == 720
MaxCalls == 1
MaxCriticalCalls == 7
MaxRecords == 1
MaxBackground == 1
MaxConcurrent == 6

(* --------------------------- configuration ---------------------------- *)
DefaultKey == "default-key-change-me"
EnvKeys == {None, "s3cret"}

\* mcp_config: int(os.environ.get("MCP_RATE_LIMIT_CRITICAL", "10")), per hour
MCP_RATE_LIMIT_CRITICAL == 10

\* _Bucket(5, 3600)
max_tokens == 5
refill_seconds == 3600

\* one token's worth of time at rate max_tokens / refill_seconds, and half of it
TokenTime == refill_seconds \div max_tokens
HalfTokenTime == refill_seconds \div (2 * max_tokens)
TickSteps == {HalfTokenTime, TokenTime}

Adapters == {"v253", "v407", "v1347"}

(* ------------------------- the tool provider -------------------------- *)
\* main_extended.TOOLS with check_governance(name) attached, as
\* _load_tools_from_main lists them; governance is a dict (truthy or empty)
\* or None.
NoGovernance == [truthy |-> FALSE, hasLevel |-> FALSE, level |-> None]
Governance(l) == [truthy |-> TRUE, hasLevel |-> TRUE, level |-> l]

\* a non-empty dict without the "level" key, and one whose "level" is None
GovernanceNoLevel == [truthy |-> TRUE, hasLevel |-> FALSE, level |-> None]
GovernanceNullLevel == [truthy |-> TRUE, hasLevel |-> TRUE, level |-> None]

\* what check_governance(name) may hand back for a tool
GovernanceShapes ==
    {NoGovernance, GovernanceNoLevel, GovernanceNullLevel}
        \cup {Governance(l) : l \in {"LOW", "MEDIUM", "HIGH", "CRITICAL"}}

TOOLS ==
    { [name |-> "echo", properties |-> <<"text">>, governance |-> Governance("LOW")],
      [name |-> "drop_all_data", properties |-> <<"confirm">>, governance |-> Governance("CRITICAL")],
      [name |-> "notes", properties |-> <<"text">>, governance |-> NoGovernance] }

\* the provider as a build finds it: main_extended imports and lists TOOLS,
\* lists them with "echo" removed, or the import (or the listing) raises
\* (call_tool: server.call_tool is a coroutine function, "async", or a plain
\* function, "sync")
ProviderUp == [available |-> TRUE, TOOLS |-> TOOLS, call_tool |-> "async"]
ProviderLess ==
    [available |-> TRUE, TOOLS |-> {t \in TOOLS : t.name # "echo"}, call_tool |-> "async"]
ProviderDown == [available |-> FALSE, TOOLS |-> TOOLS, call_tool |-> "async"]
Providers == {ProviderUp, ProviderLess, ProviderDown}

\* the provider lists "echo" under any tier but CRITICAL, or unclassified
TierProviders ==
    { [ProviderUp EXCEPT !.TOOLS =
          { [name |-> "echo", properties |-> <<"text">>, governance |-> g],
            [name |-> "drop_all_data", properties |-> <<"confirm">>,
             governance |-> Governance("CRITICAL")] }] :
      g \in {NoGovernance, Governance("LOW"), Governance("MEDIUM"), Governance("HIGH")} }

\* the provider whose call_tool is a plain function
ProviderSync == [ProviderUp EXCEPT !.call_tool = "sync"]

\* the provider lists "echo" and "notes" with any governance
GovernanceProviders ==
    { [available |-> TRUE, call_tool |-> "async",
       TOOLS |-> { [name |-> "echo", properties |-> <<"text">>, governance |-> g1],
                   [name |-> "notes", properties |-> <<"text">>, governance |-> g2] }] :
      g1 \in GovernanceShapes, g2 \in GovernanceShapes }

\* lines 1228-1242: try: ... return out / except Exception: return []
_load_tools_from_main(p) == IF p.available THEN p.TOOLS ELSE {}

\* gov = t.get("governance") or {"level": "MEDIUM", "allowed": True}
GovOrDefault(g) == IF g.truthy THEN g ELSE Governance("MEDIUM")

\* gov.get("level", "MEDIUM")
rate_limit_level(g) == IF GovOrDefault(g).hasLevel THEN GovOrDefault(g).level ELSE "MEDIUM"

\* gov.get("level") == "CRITICAL"
approval_required(g) == GovOrDefault(g).hasLevel /\ GovOrDefault(g).level = "CRITICAL"

_build_registry(tools) ==
    [n \in {t.name : t \in tools} |->
        LET t == CHOOSE x \in tools : x.name = n
        IN [name |-> n,
            parameters |-> t.properties,
            rate_limit_level |-> rate_limit_level(t.governance),
            approval_required |-> approval_required(t.governance)]]

\* tool names that requests carry: two registered ones and an unregistered one
RequestNames == {"echo", "drop_all_data", "ghost"}

(* ------------------------------ requests ------------------------------ *)
\* req.arguments: a mapping from keys to values
NoArgs == [k \in {} |-> TRUE]
ArgApproved == [k \in {"_approved"} |-> TRUE]
ArgNotApproved == [k \in {"_approved"} |-> FALSE]
ArgBackground == [k \in {"_background"} |-> TRUE]
ArgApprovedBackground == [k \in {"_approved", "_background"} |-> TRUE]

\* bool(req.arguments.get(k, False))
ArgFlag(arguments, k) == IF k \in DOMAIN arguments THEN arguments[k] ELSE FALSE

\* list(req.arguments.keys())
ArgKeys(arguments) == DOMAIN arguments

VARIABLES
    adapter,     \* which re-implementation is mounted
    SAFE_MODE,   \* os.environ SAFE_MODE in ("1", "true", "yes")
    envKey,      \* os.environ.get("MCP_API_KEY")
    REGISTRY,    \* name -> tool entry
    now,         \* time()
    bucket,      \* _critical_bucket: tokens (times refill_seconds), last
    memory,      \* records accepted by write_local_memory, oldest first
    bgTasks,     \* tasks created by asyncio.create_task and not yet run
    calls,       \* number of _critical_bucket.can_consume() calls so far
    firstCallAt, \* time() of the first can_consume call, -1 before it
    unapproved,  \* can_consume calls made for requests without "_approved"
    resp,        \* the last request handled and what the handler did with it
                 \* (before: the bucket it found; at: the time() can_consume
                 \* read; names: the keys REGISTRY had)
    provider,    \* the tool provider as the last registry build found it
    view,        \* the last answer of GET /health or GET /openapi
                 \* (names: the keys REGISTRY had when it was made)
    inflight,    \* the requests being handled at once, by arrival order: where
                 \* each handler coroutine stands and what it has answered
    lastTask     \* how the last background task that ran has ended

vars == <<adapter, SAFE_MODE, envKey, REGISTRY, now, bucket, memory, bgTasks,
          calls, firstCallAt, unapproved, resp, provider, view, inflight, lastTask>>

\* MCP_API_KEY = os.environ.get("MCP_API_KEY", "default-key-change-me")
MCP_API_KEY == IF envKey = None THEN DefaultKey ELSE envKey


(* ------------------------------ Auth Gate ----------------------------- *)
\* x_mcp_key or os.environ.get("MCP_API_KEY")
KeyOrEnv(x_mcp_key) == IF x_mcp_key # None THEN x_mcp_key ELSE envKey

\* lines 184-193: "True", "False" (read-only without key) or "raise" (401)
_validate_key_L184(x_mcp_key, read_only) ==
    IF ~SAFE_MODE THEN "True"
    ELSE IF KeyOrEnv(x_mcp_key) = None \/ KeyOrEnv(x_mcp_key) # MCP_API_KEY
         THEN (IF read_only THEN "False" ELSE "raise")
         ELSE "True"

\* lines 260-266: the HTTPException of _validate_key is re-raised unless the
\* read-only header is set; the returned value is not looked at
Admitted_L260(x_mcp_key, x_mcp_readonly) ==
    \/ _validate_key_L184(x_mcp_key, x_mcp_readonly) # "raise"
    \/ x_mcp_readonly

\* lines 380-383 and 1341-1344
_validate_key(x_mcp_key, read_only) ==
    IF SAFE_MODE THEN (x_mcp_key = MCP_API_KEY \/ read_only) ELSE TRUE

(* ----------------------------- Rate Limiter --------------------------- *)
Min(a, b) == IF a <= b THEN a ELSE b

\* _Bucket.__init__: tokens = max_tokens, last = time()
NewBucket(t) == [tokens |-> max_tokens * refill_seconds, last |-> t]

\* the refill without the min(max_tokens, ...) cap
Refill_NoCap(b, t) ==
    IF t - b.last > 0
    THEN [tokens |-> b.tokens + (t - b.last) * max_tokens, last |-> t]
    ELSE b

\* the refill without the `if elapsed > 0` around it
Refill_AnyElapsed(b, t) ==
    [tokens |-> Min(max_tokens * refill_seconds, b.tokens + (t - b.last) * max_tokens),
     last |-> t]

\* lines 1278-1283: tokens = min(max_tokens, tokens + elapsed * rate), last = now
Refill(b, t) ==
    IF t - b.last > 0
    THEN [tokens |-> Min(max_tokens * refill_seconds, b.tokens + (t - b.last) * max_tokens),
          last |-> t]
    ELSE b

\* the test of self.tokens without the decrement that follows it
Consume_NoDecrement(b, amt) ==
    [ok |-> b.tokens >= amt * refill_seconds, bucket |-> b]

\* lines 1284-1287: if self.tokens >= amt: self.tokens -= amt; return True
Consume(b, amt) ==
    IF b.tokens >= amt * refill_seconds
    THEN [ok |-> TRUE, bucket |-> [b EXCEPT !.tokens = b.tokens - amt * refill_seconds]]
    ELSE [ok |-> FALSE, bucket |-> b]

\* _Bucket.can_consume
can_consume(b, t, amt) == Consume(Refill(b, t), amt)

(* ------------------------------ responses ----------------------------- *)
Absent == [kind |-> "absent"]

\* raise HTTPException(status_code, detail): FastAPI answers {"detail": ...}
HTTPException(status_code, detail) ==
    [status |-> status_code, detail |-> detail, envelope |-> FALSE,
     success |-> FALSE, result |-> Absent, error |-> None, governance_level |-> None]

\* JSONResponse(status_code, content={...})
JSONResponse(status_code, success, result, error, governance_level) ==
    [status |-> status_code, detail |-> None, envelope |-> TRUE,
     success |-> success, result |-> result, error |-> error,
     governance_level |-> governance_level]

\* an exception that leaves the handler: the server answers 500
Unhandled == HTTPException(500, "Internal Server Error")

NoRecord == [type |-> None, tool_name |-> None, approval_status |-> None]

\* what one run of a handler did
Out(response, b, attempted, record, invoked, scheduled, limiter) ==
    [response |-> response, bucket |-> b, attempted |-> attempted, record |-> record,
     invoked |-> invoked, scheduled |-> scheduled, limiter |-> limiter]

Stop(response) == Out(response, bucket, FALSE, NoRecord, 0, 0, FALSE)

(* --------------------------- request models --------------------------- *)
\* lines 112-118: `_approved` starts with an underscore, so pydantic keeps it
\* as a private attribute that the request body cannot set: it stays False
ExecuteRequest_L112(body) ==
    [tool_name |-> body.tool_name, arguments |-> body.arguments,
     dry_run |-> body.dry_run, _approved |-> FALSE, background |-> body.background]

\* lines 1245-1249: tool_name, arguments, dry_run (request_id left out);
\* every other body field is dropped
ExecuteRequest(body) ==
    [tool_name |-> body.tool_name, arguments |-> body.arguments, dry_run |-> body.dry_run]

(* ---------------------------- durable store --------------------------- *)
\* lines 217-225: the document handed to write_local_memory
ApprovalDoc_L217(tool_name) ==
    [type |-> "approval_request", tool_name |-> tool_name, approval_status |-> None]

\* lines 1368 / 422-429: the record handed to write_local_memory
\* (arguments and requested_by left out)
ApprovalMem(tool_name) ==
    [type |-> "tool_request", tool_name |-> tool_name, approval_status |-> "pending"]

\* the write left out when the store already holds a record for the tool
WriteAttempted_Deduplicated(tool_name) ==
    \A i \in 1..Len(memory) : memory[i].tool_name # tool_name

\* lines 283, 419-432, 1366-1372: the pending branch calls the store for
\* every unapproved request; nothing is looked up first and nothing is
\* remembered between requests. (_persist_approval_request, 227-232, hands
\* its one document to write_local_memory(doc) and, on a TypeError, again
\* as write_local_memory(session_hash, doc).)
WriteAttempted(tool_name) == TRUE

(* ------------------------------ dispatch ------------------------------ *)
\* how a call of the provider's call_tool ends for the caller: with the
\* tool's value, with the provider's exception, or with the TypeError of an
\* `await` applied to a value that is not awaitable
\* lines 196-210: await fn(...) for a coroutine function, else
\* await asyncio.to_thread(fn, ...); an exception is logged and raised again
_invoke_tool(invokeOk) ==
    IF provider.call_tool = "async"
    THEN (IF invokeOk THEN "returned" ELSE "exception")
    ELSE (IF invokeOk THEN "returned" ELSE "exception")

\* lines 386-404: coro = call_tool(...); await coro if it is a coroutine,
\* else hand the value back through run_in_executor; raised again on error
_call_tool_background(invokeOk) ==
    IF ~invokeOk THEN "exception"
    ELSE IF provider.call_tool = "async" THEN "returned"
    ELSE "returned"

\* line 1384: result = await mcp_server.call_tool(...)
AwaitCallTool(invokeOk) ==
    IF ~invokeOk THEN "exception"
    ELSE IF provider.call_tool = "async" THEN "returned"
    ELSE "TypeError"

(* ------------------------------ handlers ------------------------------ *)
\* line 256: REGISTRY.get(req.tool_name) is None
NoTool_L256(tool_name) == tool_name \notin DOMAIN REGISTRY

\* the membership test left out
UnknownTool_NoCheck(tool_name) == FALSE

\* lines 411 / 1352: req.tool_name not in REGISTRY
UnknownTool(tool_name) == tool_name \notin DOMAIN REGISTRY

\* lines 253-319
execute_L253(raw, storeUp, invokeOk) ==
    LET req == ExecuteRequest_L112(raw) IN
    IF NoTool_L256(req.tool_name)
    THEN Stop(HTTPException(404, "tool not found"))
    ELSE IF req.tool_name \notin DOMAIN REGISTRY
    THEN Stop(Unhandled)
    ELSE
    LET tool == REGISTRY[req.tool_name]
        gov_level == tool.rate_limit_level
    IN
    IF ~Admitted_L260(raw.x_mcp_key, raw.x_mcp_readonly)
    THEN Stop(HTTPException(401, "Unauthorized"))
    ELSE IF req.dry_run
    THEN Stop(JSONResponse(200, TRUE,
                 [kind |-> "schema", parameters |-> tool.parameters,
                  governance_level |-> gov_level,
                  approval_required |-> tool.approval_required],
                 None, None))
    ELSE IF tool.approval_required /\ ~req._approved
    THEN Out(JSONResponse(202, FALSE, Absent, "approval_required", gov_level),
             bucket, WriteAttempted(req.tool_name),
             IF storeUp THEN ApprovalDoc_L217(req.tool_name) ELSE NoRecord,
             0, 0, FALSE)
    ELSE IF req.background
    THEN Out(JSONResponse(202, TRUE, Absent, None, None),
             bucket, FALSE, NoRecord, 0, 1, FALSE)
    ELSE IF _invoke_tool(invokeOk) = "returned"
    THEN Out(JSONResponse(200, TRUE, [kind |-> "payload"], None, gov_level),
             bucket, FALSE, NoRecord, 1, 0, FALSE)
    ELSE Out(JSONResponse(500, FALSE, Absent, _invoke_tool(invokeOk), gov_level),
             bucket, FALSE, NoRecord, 1, 0, FALSE)

\* lines 407-498
execute_L407(raw, storeUp, invokeOk) ==
    LET req == ExecuteRequest(raw) IN
    IF UnknownTool(req.tool_name)
    THEN Stop(HTTPException(400, "Unknown tool"))
    ELSE IF req.tool_name \notin DOMAIN REGISTRY
    THEN Stop(Unhandled)
    ELSE
    LET tool == REGISTRY[req.tool_name]
        level == tool.rate_limit_level
    IN
    IF ~_validate_key(raw.x_mcp_key, raw.x_mcp_readonly)
    THEN Stop(HTTPException(401, "Unauthorized"))
    ELSE IF tool.approval_required /\ ~ArgFlag(req.arguments, "_approved")
    THEN Out(JSONResponse(200, FALSE,
                 [kind |-> "approval", approval_required |-> TRUE,
                  memory_id |-> IF storeUp THEN "id" ELSE None],
                 "approval_required", level),
             bucket, WriteAttempted(req.tool_name),
             IF storeUp THEN ApprovalMem(req.tool_name) ELSE NoRecord,
             0, 0, FALSE)
    ELSE IF req.dry_run
    THEN Stop(JSONResponse(200, TRUE,
                 [kind |-> "dry_run", parameters_provided |-> ArgKeys(req.arguments)],
                 None, level))
    ELSE IF ArgFlag(req.arguments, "_background")
    THEN Out(JSONResponse(202, TRUE, [kind |-> "scheduled"], None, level),
             bucket, FALSE, NoRecord, 0, 1, FALSE)
    ELSE IF _call_tool_background(invokeOk) = "returned"
    THEN Out(JSONResponse(200, TRUE, [kind |-> "payload"], None, level),
             bucket, FALSE, NoRecord, 1, 0, FALSE)
    ELSE Out(JSONResponse(500, FALSE, Absent, _call_tool_background(invokeOk), level),
             bucket, FALSE, NoRecord, 1, 0, FALSE)

\* every tier drawing on the bucket
Throttled_AnyTier(level) == TRUE

\* line 1360: if tool.get("rate_limit_level") == "CRITICAL"
Throttled(level) == level = "CRITICAL"

\* the call dispatched before the limiter's verdict is raised
RateLimitExceeded_AfterDispatch(lim) ==
    Out(HTTPException(429, "Critical operation rate limit exceeded"),
        lim.bucket, FALSE, NoRecord, 1, 0, TRUE)

\* lines 1360-1362: can_consume() returned False: raise HTTPException(429)
RateLimitExceeded(lim) ==
    Out(HTTPException(429, "Critical operation rate limit exceeded"),
        lim.bucket, FALSE, NoRecord, 0, 0, TRUE)

\* the token handed back once the request is past the rate check
Spent_Refunded(lim) == Refill(bucket, now)

\* lines 1364-1397: no statement after the rate check touches
\* _critical_bucket: every later exit leaves it as can_consume left it
Spent(lim) == lim.bucket

\* the write without the try/except around it
PersistApproval_NoExcept(tool_name, storeUp) ==
    IF storeUp
    THEN [raised |-> FALSE, mem_id |-> "id", record |-> ApprovalMem(tool_name)]
    ELSE [raised |-> TRUE, mem_id |-> None, record |-> NoRecord]

\* lines 1366-1372 (419-432): try: mem_id = write_local_memory(mem)
\* except Exception: mem_id = None
PersistApproval(tool_name, storeUp) ==
    IF storeUp
    THEN [raised |-> FALSE, mem_id |-> "id", record |-> ApprovalMem(tool_name)]
    ELSE [raised |-> FALSE, mem_id |-> None, record |-> NoRecord]

\* the call without the try/except around it
CallTool_NoExcept(level, invokeOk) ==
    IF invokeOk
    THEN JSONResponse(200, TRUE, [kind |-> "payload"], None, level)
    ELSE Unhandled

\* lines 1379-1397: try: result = await mcp_server.call_tool(...) -> 200
\* except Exception as e: -> 500 with error = str(e)
CallTool(level, invokeOk) ==
    IF AwaitCallTool(invokeOk) = "returned"
    THEN JSONResponse(200, TRUE, [kind |-> "payload"], None, level)
    ELSE JSONResponse(500, FALSE, Absent, AwaitCallTool(invokeOk), level)

\* lines 1347-1397
execute(raw, storeUp, invokeOk) ==
    LET req == ExecuteRequest(raw) IN
    IF UnknownTool(req.tool_name)
    THEN Stop(HTTPException(400, "Unknown tool"))
    ELSE IF req.tool_name \notin DOMAIN REGISTRY
    THEN Stop(Unhandled)
    ELSE
    LET tool == REGISTRY[req.tool_name]
        level == tool.rate_limit_level
        critical == Throttled(level)
        lim == IF critical THEN can_consume(bucket, now, 1)
               ELSE [ok |-> TRUE, bucket |-> bucket]
        mem == PersistApproval(req.tool_name, storeUp)
    IN
    IF ~_validate_key(raw.x_mcp_key, raw.x_mcp_readonly)
    THEN Stop(HTTPException(401, "Unauthorized"))
    ELSE IF ~lim.ok
    THEN RateLimitExceeded(lim)
    ELSE IF tool.approval_required /\ ~ArgFlag(req.arguments, "_approved")
    THEN (IF mem.raised
          THEN Out(Unhandled, Spent(lim), WriteAttempted(req.tool_name), mem.record, 0, 0, critical)
          ELSE Out(JSONResponse(200, FALSE,
                       [kind |-> "approval", approval_required |-> TRUE,
                        memory_id |-> mem.mem_id],
                       "approval_required", level),
                   Spent(lim), WriteAttempted(req.tool_name), mem.record, 0, 0, critical))
    ELSE IF req.dry_run
    THEN Out(JSONResponse(200, TRUE,
                 [kind |-> "dry_run", parameters_provided |-> ArgKeys(req.arguments)],
                 None, level),
             Spent(lim), FALSE, NoRecord, 0, 0, critical)
    ELSE Out(CallTool(level, invokeOk),
             Spent(lim), FALSE, NoRecord, 1, 0, critical)

\* ExecuteRequest(tool_name=tool_name, arguments=arguments, dry_run=dry_run)
\* with the two headers: every other field of the model takes its default
NamedRequest(tool_name, arguments, dry_run, x_mcp_key, x_mcp_readonly) ==
    [tool_name |-> tool_name, arguments |-> arguments, dry_run |-> dry_run,
     approved |-> FALSE, background |-> FALSE,
     x_mcp_key |-> x_mcp_key, x_mcp_readonly |-> x_mcp_readonly]

\* lines 322-325
execute_named_L322(tool_name, arguments, dry_run, x_mcp_key, x_mcp_readonly, storeUp, invokeOk) ==
    execute_L253(NamedRequest(tool_name, arguments, dry_run, x_mcp_key, x_mcp_readonly),
                 storeUp, invokeOk)

\* lines 501-504
execute_named_L501(tool_name, arguments, dry_run, x_mcp_key, x_mcp_readonly, storeUp, invokeOk) ==
    execute_L407(NamedRequest(tool_name, arguments, dry_run, x_mcp_key, x_mcp_readonly),
                 storeUp, invokeOk)

\* lines 1400-1403
execute_named(tool_name, arguments, dry_run, x_mcp_key, x_mcp_readonly, storeUp, invokeOk) ==
    execute(NamedRequest(tool_name, arguments, dry_run, x_mcp_key, x_mcp_readonly),
            storeUp, invokeOk)

\* what the mounted /execute handler does with a request in the current state
Handle(raw, up) ==
    CASE adapter = "v253" -> execute_L253(raw, up, up)
      [] adapter = "v407" -> execute_L407(raw, up, up)
      [] OTHER -> execute(raw, up, up)

(* ---------------------------- introspection --------------------------- *)
\* "mcp_server_available": True whatever the registry holds
health_AlwaysAvailable ==
    [status |-> "healthy", mcp_server_available |-> TRUE]

\* lines 1324-1333 (237-245, 364-372): GET /mcp/health
health ==
    [status |-> "healthy", mcp_server_available |-> DOMAIN REGISTRY # {}]

\* lines 1408-1419: one entry paths["/mcp/execute/{name}"] per item of
\* REGISTRY (the key stands for the path), with the tool's parameter names
Paths ==
    [name \in DOMAIN REGISTRY |->
        [operationId |-> <<"execute", name>>,
         properties |-> REGISTRY[name].parameters]]

\* the document kept from the first call and returned again
openapi_Cached ==
    IF view.kind = "openapi" THEN view.doc
    ELSE [paths |-> Paths, attach_ready |-> TRUE]

\* lines 1406-1423 (328-344, 507-536): GET /mcp/openapi
openapi == [paths |-> Paths, attach_ready |-> TRUE]

(* ------------------------------- inputs ------------------------------- *)
\* X-MCP-KEY header: missing, the configured secret, or another string
HeaderKeys == {None, MCP_API_KEY, "wrong-key"}

RawRequests(args, approveds, backgrounds) ==
    [tool_name : RequestNames, arguments : args, dry_run : BOOLEAN,
     approved : approveds, background : backgrounds,
     x_mcp_key : HeaderKeys, x_mcp_readonly : BOOLEAN]

\* body fields a request model does not declare are dropped when the body is
\* parsed; `background` is varied for every adapter, `approved` only where the
\* model declares it
Requests_L253 == RawRequests({NoArgs}, BOOLEAN, BOOLEAN)
Requests_L407 ==
    RawRequests({NoArgs, ArgApproved, ArgBackground, ArgApprovedBackground},
                {FALSE}, {FALSE})
Requests == RawRequests({NoArgs, ArgApproved, ArgNotApproved}, {FALSE}, BOOLEAN)

NoRequest ==
    [tool_name |-> None, arguments |-> NoArgs, dry_run |-> FALSE, approved |-> FALSE,
     background |-> FALSE, x_mcp_key |-> None, x_mcp_readonly |-> FALSE]

(* ------------------------------- actions ------------------------------ *)
\* A request either writes to the store or calls invoke, never both, so one
\* choice `up` stands for "the store accepts the write" and "invoke returns".
NoView == [kind |-> "none", names |-> {}]

\* a place for a request that has not arrived
Idle == [pc |-> "idle", req |-> NoRequest, passed |-> FALSE, response |-> Unhandled]

NoTask == [ran |-> FALSE, invoked |-> 0, ended |-> None]

\* the module is imported while the provider is in one of `providers`
Start(providers) ==
    /\ adapter \in Adapters
    /\ SAFE_MODE \in BOOLEAN
    /\ envKey \in EnvKeys
    /\ provider \in providers
    /\ REGISTRY = _build_registry(_load_tools_from_main(provider))
    /\ view = NoView
    /\ inflight = [p \in 1..MaxConcurrent |-> Idle]
    /\ lastTask = NoTask
    /\ now = 0
    /\ bucket = NewBucket(0)
    /\ memory = <<>>
    /\ bgTasks = 0
    /\ calls = 0
    /\ firstCallAt = -1
    /\ unapproved = 0
    /\ resp = [served |-> FALSE, req |-> NoRequest, response |-> Unhandled,
               attempted |-> FALSE, record |-> NoRecord, invoked |-> 0,
               scheduled |-> 0, limiter |-> FALSE, before |-> NewBucket(0),
               hadToken |-> TRUE, at |-> 0, names |-> {}, route |-> "none"]

Init == Start({ProviderUp})

\* the state after a handler run that did `out` for request `raw`, which came
\* in by `route`: "execute" or "execute_named"
ServeVia(route, raw, out, maxCalls) ==
    /\ out.limiter => calls < maxCalls
    /\ out.record # NoRecord => Len(memory) < MaxRecords
    /\ out.scheduled > 0 => bgTasks < MaxBackground
    /\ bucket' = out.bucket
    /\ memory' = IF out.record # NoRecord THEN Append(memory, out.record) ELSE memory
    /\ bgTasks' = bgTasks + out.scheduled
    /\ calls' = IF out.limiter THEN calls + 1 ELSE calls
    /\ firstCallAt' = IF out.limiter /\ firstCallAt < 0 THEN now ELSE firstCallAt
    /\ unapproved' = IF out.limiter /\ ~ArgFlag(raw.arguments, "_approved")
                     THEN unapproved + 1 ELSE unapproved
    /\ resp' = [served |-> TRUE, req |-> raw, response |-> out.response,
                attempted |-> out.attempted, record |-> out.record,
                invoked |-> out.invoked, scheduled |-> out.scheduled,
                limiter |-> out.limiter, before |-> bucket,
                hadToken |-> Refill(bucket, now).tokens >= refill_seconds,
                at |-> IF out.limiter THEN now ELSE 0,
                names |-> DOMAIN REGISTRY, route |-> route]
    /\ UNCHANGED <<inflight, lastTask, adapter, SAFE_MODE, envKey, REGISTRY, now, provider, view>>

Serve(raw, out, maxCalls) == ServeVia("execute", raw, out, maxCalls)

\* POST /mcp/execute, lines 253-319
PostExecute_L253 ==
    /\ adapter = "v253"
    /\ \E raw \in Requests_L253, up \in BOOLEAN :
          Serve(raw, execute_L253(raw, up, up), MaxCalls)

\* POST /mcp/execute, lines 407-498
PostExecute_L407 ==
    /\ adapter = "v407"
    /\ \E raw \in Requests_L407, up \in BOOLEAN :
          Serve(raw, execute_L407(raw, up, up), MaxCalls)

\* POST /mcp/execute, lines 1347-1397
PostExecute ==
    /\ adapter = "v1347"
    /\ \E raw \in Requests, up \in BOOLEAN :
          Serve(raw, execute(raw, up, up), MaxCalls)

\* the failed task put back to run again
TaskEnd_Retried(invokeOk) ==
    IF invokeOk THEN [ended |-> "returned", again |-> 0]
    ELSE [ended |-> "raised", again |-> 1]

\* how a background task ends. Lines 294-298: _bg awaits _invoke_tool and
\* logs any exception; lines 386-404 under create_task (460):
\* _call_tool_background logs and raises again, so the exception ends the
\* task and stays in the task object, which nobody awaits. Neither runs the
\* call again.
TaskEnd(invokeOk) ==
    IF adapter = "v253"
    THEN [ended |-> IF _invoke_tool(invokeOk) = "returned" THEN "returned" ELSE "logged",
          again |-> 0]
    ELSE [ended |-> IF _call_tool_background(invokeOk) = "returned"
                    THEN "returned" ELSE "raised",
          again |-> 0]

\* a task made by asyncio.create_task runs; invoke returns or raises
RunBackground ==
    /\ bgTasks > 0
    /\ \E invokeOk \in BOOLEAN :
          /\ bgTasks' = bgTasks - 1 + TaskEnd(invokeOk).again
          /\ lastTask' = [ran |-> TRUE, invoked |-> 1, ended |-> TaskEnd(invokeOk).ended]
    /\ UNCHANGED <<inflight, adapter, SAFE_MODE, envKey, REGISTRY, now, bucket, memory,
                   calls, firstCallAt, unapproved, resp, provider, view>>

\* time() moves on
Tick ==
    /\ \E d \in TickSteps :
          /\ now + d <= MaxNow
          /\ now' = now + d
    /\ UNCHANGED <<inflight, lastTask, adapter, SAFE_MODE, envKey, REGISTRY, bucket, memory, bgTasks,
                   calls, firstCallAt, unapproved, resp, provider, view>>

\* time() is the wall clock: a clock adjustment sets it back
ClockBack ==
    /\ \E d \in TickSteps :
          /\ now - d >= 0
          /\ now' = now - d
    /\ UNCHANGED <<inflight, lastTask, adapter, SAFE_MODE, envKey, REGISTRY, bucket, memory,
                   bgTasks, calls, firstCallAt, unapproved, resp, provider, view>>

\* POST /mcp/execute, lines 1347-1397, for authenticated requests that name
\* the CRITICAL tool: the requests that reach the rate limiter
CriticalRequests ==
    {r \in Requests : /\ r.tool_name = "drop_all_data"
                      /\ r.x_mcp_key = MCP_API_KEY
                      /\ ~r.x_mcp_readonly}

PostExecuteCritical ==
    /\ adapter = "v1347"
    /\ \E raw \in CriticalRequests, up \in BOOLEAN :
          Serve(raw, execute(raw, up, up), MaxCriticalCalls)

\* POST /mcp/execute on the mounted adapter for the tool "echo"
TierRequests ==
    {r \in RawRequests({NoArgs, ArgApproved}, {FALSE}, BOOLEAN) :
        /\ r.tool_name = "echo"
        /\ r.x_mcp_key = MCP_API_KEY
        /\ ~r.x_mcp_readonly}

PostExecuteTier ==
    \E raw \in TierRequests, up \in BOOLEAN :
        Serve(raw, Handle(raw, up), MaxCriticalCalls)

\* REGISTRY = _build_registry() runs again (line 1319), with the provider in
\* any of its states
Rebuild ==
    /\ \E p \in Providers :
          /\ provider' = p
          /\ REGISTRY' = _build_registry(_load_tools_from_main(p))
    /\ UNCHANGED <<inflight, lastTask, adapter, SAFE_MODE, envKey, now, bucket, memory, bgTasks,
                   calls, firstCallAt, unapproved, resp, view>>

\* REGISTRY = _build_registry() runs over tools of any governance
RebuildGovernance ==
    /\ \E p \in GovernanceProviders :
          /\ provider' = p
          /\ REGISTRY' = _build_registry(_load_tools_from_main(p))
    /\ UNCHANGED <<inflight, lastTask, adapter, SAFE_MODE, envKey, now, bucket, memory,
                   bgTasks, calls, firstCallAt, unapproved, resp, view>>

\* GET /mcp/health
GetHealth ==
    /\ view' = [kind |-> "health", doc |-> health, names |-> DOMAIN REGISTRY]
    /\ UNCHANGED <<inflight, lastTask, adapter, SAFE_MODE, envKey, REGISTRY, now, bucket, memory,
                   bgTasks, calls, firstCallAt, unapproved, resp, provider>>

\* GET /mcp/openapi
GetOpenapi ==
    /\ view' = [kind |-> "openapi", doc |-> openapi, names |-> DOMAIN REGISTRY]
    /\ UNCHANGED <<inflight, lastTask, adapter, SAFE_MODE, envKey, REGISTRY, now, bucket, memory,
                   bgTasks, calls, firstCallAt, unapproved, resp, provider>>

\* POST /mcp/execute on the mounted adapter, for requests without the
\* read-only header that carry the configured key or none
RegistryRequests ==
    {r \in RawRequests({NoArgs, ArgApproved}, {FALSE}, BOOLEAN) :
        /\ r.x_mcp_key \in {None, MCP_API_KEY}
        /\ ~r.x_mcp_readonly}

PostExecuteRegistry ==
    \E raw \in RegistryRequests, up \in BOOLEAN :
        Serve(raw, Handle(raw, up), MaxCalls)

\* POST /mcp/execute/{tool_name}, lines 322-325: the caller of an /execute
\* request `raw` sends its tool name in the path, its arguments as the body,
\* dry_run in the query and the same headers
PostExecuteNamed_L322 ==
    /\ adapter = "v253"
    /\ \E raw \in Requests_L253, up \in BOOLEAN :
          ServeVia("execute_named", raw,
                   execute_named_L322(raw.tool_name, raw.arguments, raw.dry_run,
                                      raw.x_mcp_key, raw.x_mcp_readonly, up, up),
                   MaxCalls)

\* POST /mcp/execute/{tool_name}, lines 501-504
PostExecuteNamed_L501 ==
    /\ adapter = "v407"
    /\ \E raw \in Requests_L407, up \in BOOLEAN :
          ServeVia("execute_named", raw,
                   execute_named_L501(raw.tool_name, raw.arguments, raw.dry_run,
                                      raw.x_mcp_key, raw.x_mcp_readonly, up, up),
                   MaxCalls)

\* POST /mcp/execute/{tool_name}, lines 1400-1403
PostExecuteNamed ==
    /\ adapter = "v1347"
    /\ \E raw \in Requests, up \in BOOLEAN :
          ServeVia("execute_named", raw,
                   execute_named(raw.tool_name, raw.arguments, raw.dry_run,
                                 raw.x_mcp_key, raw.x_mcp_readonly, up, up),
                   MaxCalls)

\* approved requests for the CRITICAL tool, as they arrive together
ConcurrentRequests ==
    {r \in CriticalRequests : r.arguments = ArgApproved /\ ~r.background}

\* a request arrives and waits for the event loop to start its handler; the
\* places are taken in the order of arrival
Accept ==
    \E p \in 1..MaxConcurrent, raw \in ConcurrentRequests :
        /\ inflight[p].pc = "idle"
        /\ \A q \in 1..(p - 1) : inflight[q].pc # "idle"
        /\ inflight' = [inflight EXCEPT ![p] = [Idle EXCEPT !.pc = "accepted", !.req = raw]]
        /\ UNCHANGED <<lastTask, adapter, SAFE_MODE, envKey, REGISTRY, now, bucket,
                       memory, bgTasks, calls, firstCallAt, unapproved, resp,
                       provider, view>>

\* lines 1349-1384: the event loop runs the handler of one waiting request
\* from its first line to its first `await` (line 1384) or to its return;
\* _critical_bucket.can_consume() (1276-1287) has no await in it, so the
\* refill, the test and the decrement are inside this one step
Enter ==
    \E p \in 1..MaxConcurrent :
        /\ inflight[p].pc = "accepted"
        /\ LET raw == inflight[p].req
               out == execute(raw, TRUE, TRUE)
           IN /\ bucket' = out.bucket
              /\ calls' = IF out.limiter THEN calls + 1 ELSE calls
              /\ inflight' = [inflight EXCEPT ![p] =
                     [pc |-> IF out.invoked = 1 THEN "awaiting" ELSE "done",
                      req |-> raw,
                      passed |-> out.limiter /\ out.response.status # 429,
                      response |-> IF out.invoked = 1 THEN Unhandled ELSE out.response]]
        /\ UNCHANGED <<lastTask, adapter, SAFE_MODE, envKey, REGISTRY, now, memory,
                       bgTasks, firstCallAt, unapproved, resp, provider, view>>

\* lines 1384-1397: mcp_server.call_tool ends and the handler answers
Return ==
    \E p \in 1..MaxConcurrent, invokeOk \in BOOLEAN :
        /\ inflight[p].pc = "awaiting"
        /\ inflight' = [inflight EXCEPT ![p].pc = "done",
                                        ![p].response = CallTool("CRITICAL", invokeOk)]
        /\ UNCHANGED <<lastTask, adapter, SAFE_MODE, envKey, REGISTRY, now, bucket,
                       memory, bgTasks, calls, firstCallAt, unapproved, resp,
                       provider, view>>

\* every /execute handler at one instant: time() is read only by the bucket
\* of the adapter of lines 1223-1423, and SpecBucket lets it move on
Next == PostExecute_L253 \/ PostExecute_L407 \/ PostExecute

Spec == Init /\ [][Next]_vars

\* the same handlers with the background tasks they schedule running in
\* between, with enforcement off
InitBackground == Init /\ ~SAFE_MODE /\ envKey = None

NextBackground == Next \/ RunBackground

SpecBackground == InitBackground /\ [][NextBackground]_vars

\* the /execute handlers over a provider whose call_tool is a coroutine
\* function or a plain function, with enforcement off
InitInvoke == Start({ProviderUp, ProviderSync}) /\ ~SAFE_MODE /\ envKey = None

SpecInvoke == InitInvoke /\ [][Next]_vars

\* the adapter with the token bucket, driven through many CRITICAL requests
InitBucket == Init /\ adapter = "v1347"

NextBucket == PostExecuteCritical \/ Tick

SpecBucket == InitBucket /\ [][NextBucket]_vars

\* calls for a tool of a lower tier among CRITICAL calls that drain the
\* bucket, at one instant
InitTiers == Start(TierProviders) /\ envKey = None

NextTiers == PostExecuteCritical \/ PostExecuteTier \/ RunBackground

SpecTiers == InitTiers /\ [][NextTiers]_vars

\* the same adapter under a clock that also steps back
NextClock == PostExecuteCritical \/ Tick \/ ClockBack

SpecClock == InitBucket /\ [][NextClock]_vars

\* the gateway over registry builds: the provider may be down or list fewer
\* tools at a build, and the introspection endpoints are called in between
InitRegistry == Start(Providers) /\ envKey = None

NextRegistry == Rebuild \/ GetHealth \/ GetOpenapi \/ PostExecuteRegistry

SpecRegistry == InitRegistry /\ [][NextRegistry]_vars

\* the adapter with the token bucket under requests that arrive together,
\* at one instant
InitConcurrent == InitBucket /\ ~SAFE_MODE /\ envKey = None

NextConcurrent == Accept \/ Enter \/ Return

SpecConcurrent == InitConcurrent /\ [][NextConcurrent]_vars

\* registry builds over tools whose governance takes every shape
InitGovernance == Start(GovernanceProviders) /\ ~SAFE_MODE /\ envKey = None

NextGovernance == RebuildGovernance

SpecGovernance == InitGovernance /\ [][NextGovernance]_vars

\* both execute routes of the mounted adapter, at one instant
InitNamed == Init /\ envKey = None

NextNamed ==
    \/ PostExecute_L253 \/ PostExecute_L407 \/ PostExecute
    \/ PostExecuteNamed_L322 \/ PostExecuteNamed_L501 \/ PostExecuteNamed

SpecNamed == InitNamed /\ [][NextNamed]_vars

(* ======================= reading a response ========================== *)
\* the outcome a caller sees in a response
Outcome(r) ==
    IF ~r.envelope
    THEN (IF r.status \in {400, 404} THEN "unknown_tool"
          ELSE IF r.status = 401 THEN "unauthorized"
          ELSE IF r.status = 429 THEN "rate_limited"
          ELSE "fault")
    ELSE IF r.error = "approval_required" THEN "approval_pending"
    ELSE IF r.success /\ r.result.kind \in {"schema", "dry_run"} THEN "dry_run"
    ELSE IF r.success /\ r.status = 202 THEN "background_ack"
    ELSE IF r.success THEN "result"
    ELSE "execution_error"

\* the last request named a registered tool
Registered == resp.served /\ resp.req.tool_name \in DOMAIN REGISTRY

Tool == REGISTRY[resp.req.tool_name]

\* the Auth Gate's contract: enforcement off, or the credential header equals
\* the configured secret, or the request declares itself read-only
GateAdmits(req) ==
    \/ ~SAFE_MODE
    \/ req.x_mcp_key = MCP_API_KEY
    \/ req.x_mcp_readonly

\* the caller-asserted approved marker, where the mounted adapter reads it
Marker(req) ==
    IF adapter = "v253" THEN req.approved ELSE ArgFlag(req.arguments, "_approved")

\* the background flag, where the mounted adapter reads it
Background(req) ==
    IF adapter = "v407" THEN ArgFlag(req.arguments, "_background") ELSE req.background

NoSideEffect ==
    /\ bucket = resp.before
    /\ ~resp.limiter
    /\ ~resp.attempted
    /\ resp.record = NoRecord
    /\ resp.invoked = 0
    /\ resp.scheduled = 0

(* ============================== claims =============================== *)
Authenticated == Registered /\ GateAdmits(resp.req)

\* the first outcome that applies in the order dry-run, approval-pending,
\* rate-limited, background-ack, synchronous result or execution error
FirstInOrder ==
    IF resp.req.dry_run THEN {"dry_run"}
    ELSE IF Tool.approval_required /\ ~Marker(resp.req) THEN {"approval_pending"}
    ELSE IF Tool.rate_limit_level = "CRITICAL" /\ ~resp.hadToken THEN {"rate_limited"}
    ELSE IF Background(resp.req) THEN {"background_ack"}
    ELSE {"result", "execution_error"}

\* C1: an authenticated /execute request that names a registered tool gets
\* the first outcome that applies in the order dry-run, approval-pending,
\* rate-limited, background-ack, synchronous result or execution error.
C1_FixedOrder ==
    Authenticated => Outcome(resp.response) \in FirstInOrder

\* C2: a request whose toolName is not a key of the registry gets the
\* UnknownTool rejection; invoke is not called, no token is consumed and no
\* approval record is written, whatever the other fields and headers are.
C2_UnknownTool ==
    (resp.served /\ resp.req.tool_name \notin DOMAIN REGISTRY)
        => (Outcome(resp.response) = "unknown_tool" /\ NoSideEffect)

\* an unregistered name was asked for with a valid key, dry-run and the
\* read-only header set, and was turned away
C2_Witness ==
    /\ resp.served
    /\ resp.req.tool_name = "ghost"
    /\ resp.req.x_mcp_key = MCP_API_KEY
    /\ resp.req.dry_run
    /\ resp.req.x_mcp_readonly
    /\ SAFE_MODE
    /\ Outcome(resp.response) = "unknown_tool"

\* C3: with enforcement enabled, a request for a registered tool whose
\* credential is missing or incorrect and that does not declare read-only is
\* rejected as unauthorized, with no token consumed, no approval record
\* written and no invoke.
C3_UnauthorizedNoSideEffect ==
    (Registered /\ SAFE_MODE /\ resp.req.x_mcp_key # MCP_API_KEY /\ ~resp.req.x_mcp_readonly)
        => (Outcome(resp.response) = "unauthorized" /\ NoSideEffect)

\* C4: the Auth Gate admits a request if and only if enforcement is disabled,
\* or the credential header equals the configured secret, or the request
\* declares itself read-only.
C4_AuthGate ==
    Registered => ((Outcome(resp.response) # "unauthorized") <=> GateAdmits(resp.req))

\* C5: an authenticated dryRun=true request for a registered tool never calls
\* invoke and its result holds the tool's registered parameter list and its
\* governance tier.
C5_DryRunSchema ==
    (Authenticated /\ resp.req.dry_run)
        => /\ resp.invoked = 0
           /\ resp.scheduled = 0
           /\ resp.response.result.kind = "schema"
           /\ resp.response.result.parameters = Tool.parameters
           /\ resp.response.result.governance_level = Tool.rate_limit_level

\* C6: an authenticated dryRun=true request for a registered tool yields the
\* dry-run result, leaves the bucket's token count unchanged and writes no
\* approval record.
C6_DryRunFrame ==
    (Authenticated /\ resp.req.dry_run)
        => /\ Outcome(resp.response) = "dry_run"
           /\ bucket.tokens = resp.before.tokens
           /\ ~resp.attempted
           /\ resp.record = NoRecord

\* C7: for a tool with approvalRequired, a non-dry-run request without the
\* approved marker returns approval-pending, hands one approval record to the
\* store and never calls invoke, on the first and on every later such call.
C7_PendingAlways ==
    (Authenticated /\ Tool.approval_required /\ ~resp.req.dry_run /\ ~Marker(resp.req))
        => /\ Outcome(resp.response) = "approval_pending"
           /\ resp.attempted
           /\ resp.invoked = 0
           /\ resp.scheduled = 0

\* C8: for an approval-required tool, a non-dry-run request that carries the
\* approved marker writes no approval record, is not answered approval-pending
\* and, unless rate-limited, has invoke called exactly once.
C8_ApprovedProceeds ==
    (Authenticated /\ Tool.approval_required /\ ~resp.req.dry_run /\ Marker(resp.req))
        => /\ ~resp.attempted
           /\ Outcome(resp.response) # "approval_pending"
           /\ (Outcome(resp.response) # "rate_limited"
                  => resp.invoked + resp.scheduled = 1)

\* the last request was the k-th one to reach the rate limiter
LimiterCall(k) == resp.served /\ resp.limiter /\ calls = k

FirstCallsPass ==
    \A k \in 1..max_tokens : LimiterCall(k) => Outcome(resp.response) # "rate_limited"

RegeneratedPasses ==
    (resp.served /\ resp.limiter /\ resp.at - resp.before.last >= TokenTime)
        => Outcome(resp.response) # "rate_limited"

\* C9 as stated: starting from a full bucket of capacity C, the first C calls
\* pass, the (C+1)-th call within the same refill window is rate-limited, and
\* a call made once a token's worth of time has passed passes again.
C9_WindowCeiling ==
    /\ FirstCallsPass
    /\ (LimiterCall(max_tokens + 1) /\ resp.at - firstCallAt < refill_seconds)
           => Outcome(resp.response) = "rate_limited"
    /\ RegeneratedPasses

\* C9 amended: the first C calls pass; the (C+1)-th call is rate-limited when
\* less than refill_seconds / C seconds (one token's worth) have passed since
\* the first of them; a call made at least that long after the bucket's last
\* refill passes.
C9_TokenBucket ==
    /\ FirstCallsPass
    /\ (LimiterCall(max_tokens + 1) /\ resp.at - firstCallAt < TokenTime)
           => Outcome(resp.response) = "rate_limited"
    /\ RegeneratedPasses

\* the (C+1)-th call came half a token's time after the first and was turned
\* away with half a token in the bucket
C9_Witness ==
    /\ LimiterCall(max_tokens + 1)
    /\ resp.at - firstCallAt = HalfTokenTime
    /\ Outcome(resp.response) = "rate_limited"
    /\ bucket.tokens > 0

\* C10: a call that ends approval-pending consumes no token: with one
\* unapproved call among them and no time elapsing, the first C approved
\* calls to a CRITICAL tool all proceed to dispatch.
C10_PendingKeepsToken ==
    (/\ resp.served /\ resp.limiter
     /\ now = 0
     /\ unapproved = 1
     /\ calls - unapproved <= max_tokens
     /\ Marker(resp.req)
     /\ ~resp.req.dry_run)
        => Outcome(resp.response) \in {"result", "execution_error"}

\* C11: a request rejected as rate-limited is rejected before the Dispatcher
\* and before the approval workflow: invoke is not called, nothing is
\* scheduled and no approval record is handed to the store for it.
C11_RateLimitedFirst ==
    (resp.served /\ Outcome(resp.response) = "rate_limited")
        => /\ resp.invoked = 0
           /\ resp.scheduled = 0
           /\ ~resp.attempted
           /\ resp.record = NoRecord

\* an unapproved call to the approval-required CRITICAL tool found the bucket
\* empty and was turned away
C11_Witness ==
    /\ resp.served /\ resp.limiter
    /\ Outcome(resp.response) = "rate_limited"
    /\ Tool.approval_required
    /\ ~Marker(resp.req)
    /\ ~resp.req.dry_run
    /\ ~resp.hadToken

\* C12: when the store write fails while an approval request is recorded,
\* the request is still answered approval-pending, with no record id; invoke
\* is not called and the failure does not leave the handler.
C12_StoreFailurePending ==
    (resp.served /\ resp.attempted /\ resp.record = NoRecord)
        => /\ Outcome(resp.response) = "approval_pending"
           /\ resp.invoked = 0
           /\ resp.scheduled = 0
           /\ (resp.response.result # Absent
                  => resp.response.result.memory_id = None)

\* the bucket adapter tried to record an approval request, the store refused
\* it and the caller was told approval is pending, with a null memory_id
C12_Witness ==
    /\ adapter = "v1347"
    /\ resp.served /\ resp.attempted
    /\ resp.record = NoRecord
    /\ memory = <<>>
    /\ Outcome(resp.response) = "approval_pending"
    /\ resp.response.result.memory_id = None

\* the last request got past the registry lookup, the Auth Gate, the approval
\* workflow and the rate limiter
PassedChecks ==
    /\ Registered
    /\ Outcome(resp.response) \notin
          {"unknown_tool", "unauthorized", "approval_pending", "rate_limited"}

\* C13: a background=true request that passes the auth, approval and rate
\* checks is answered with the acknowledgment without waiting for invoke: the
\* handler schedules the call, does not run it itself, and the answer is the
\* same however invoke ends.
C13_BackgroundAck ==
    (PassedChecks /\ Background(resp.req) /\ ~resp.req.dry_run)
        => /\ Outcome(resp.response) = "background_ack"
           /\ resp.scheduled = 1
           /\ resp.invoked = 0

\* C14: when the provider raises during a synchronous invocation, the caller
\* gets an error envelope with success=false and the error message, and the
\* gateway is left in the state the same call leaves when invoke returns, so
\* later requests are served as if the call had not raised.
C14_ProviderExceptionCaught ==
    [][(resp' # resp /\ resp'.invoked = 1 /\ ~resp'.response.success)
          => /\ resp'.response.envelope
             /\ resp'.response.error = "exception"
             /\ resp'.response.result = Absent
             /\ bucket' = Handle(resp'.req, TRUE).bucket
             /\ memory' = memory
             /\ bgTasks' = bgTasks
             /\ REGISTRY' = REGISTRY]_vars

\* the provider raised while the bucket adapter ran the CRITICAL tool for an
\* approved request; the caller got the error envelope and the token is spent
C14_Witness ==
    /\ adapter = "v1347"
    /\ resp.served
    /\ resp.req.tool_name = "drop_all_data"
    /\ resp.invoked = 1
    /\ Outcome(resp.response) = "execution_error"
    /\ resp.response.status = 500
    /\ bucket.tokens = resp.before.tokens - refill_seconds

\* C15: a generated capability document has exactly one execute entry per
\* tool name the registry holds at the moment of the call and no entry for
\* any other name, also when a tool was removed since the last document.
C15_DocumentMatchesRegistry ==
    view.kind = "openapi"
        => /\ DOMAIN view.doc.paths = view.names
           /\ \A n \in view.names : view.doc.paths[n].operationId = <<"execute", n>>

\* a document was generated after a rebuild had removed "echo" from a
\* registry that held it when a request was served: it has no entry for it
C15_Witness ==
    /\ view.kind = "openapi"
    /\ "echo" \in resp.names
    /\ "echo" \notin DOMAIN REGISTRY
    /\ "echo" \notin DOMAIN view.doc.paths
    /\ "drop_all_data" \in DOMAIN view.doc.paths

\* C19: when the provider is unavailable at a registry build, the registry is
\* empty; the gateway runs: /health answers and reports the registry as
\* unavailable, and every /execute call made while the registry is empty fails
\* with tool-not-found and has no side effect; after a build that finds the
\* provider, the registry holds the provider's tools again.
C19_EmptyRegistry ==
    /\ ~provider.available => DOMAIN REGISTRY = {}
    /\ provider.available => DOMAIN REGISTRY = {t.name : t \in provider.TOOLS}
    /\ (view.kind = "health" /\ view.names = {})
           => /\ view.doc.status = "healthy"
              /\ ~view.doc.mcp_server_available
    /\ (resp.served /\ resp.names = {})
           => /\ Outcome(resp.response) = "unknown_tool"
              /\ NoSideEffect

\* the provider was down at the last build: /health answered and reported it,
\* and an authenticated call for "echo" was answered tool-not-found
C19_Witness ==
    /\ ~provider.available
    /\ view.kind = "health"
    /\ view.names = {}
    /\ ~view.doc.mcp_server_available
    /\ resp.served
    /\ resp.names = {}
    /\ resp.req.tool_name = "echo"
    /\ resp.req.x_mcp_key = MCP_API_KEY
    /\ Outcome(resp.response) = "unknown_tool"

\* the handler output `o` is what the last step answered and did
SameOut(o) ==
    /\ o.response = resp'.response
    /\ o.bucket = bucket'
    /\ o.attempted = resp'.attempted
    /\ o.record = resp'.record
    /\ o.invoked = resp'.invoked
    /\ o.scheduled = resp'.scheduled

\* C16: POST /execute/{toolName} answers and acts as POST /execute does for
\* the same tool name, arguments, dryRun, background, approved marker and
\* headers in the same gateway state: same outcome, same token consumption,
\* same approval record, same invoke.
C16_NamedSameAsExecute ==
    [][(resp' # resp /\ resp'.route = "execute_named")
          => \E up \in BOOLEAN : SameOut(Handle(resp'.req, up))]_vars

\* C17: in every /execute response envelope, result is present only when
\* success is true and error is present only when success is false, so no
\* envelope, the approval-pending one included, carries both.
C17_ResultXorError ==
    (resp.served /\ resp.response.envelope)
        => /\ (resp.response.result # Absent => resp.response.success)
           /\ (resp.response.error # None => ~resp.response.success)
           /\ ~(resp.response.result # Absent /\ resp.response.error # None)

\* the outcomes of the error taxonomy (a degraded persistence is answered as
\* approval-pending)
Taxonomy ==
    {"unknown_tool", "unauthorized", "rate_limited", "approval_pending",
     "execution_error"}

\* C18: every outcome of the error taxonomy reaches the caller as the uniform
\* response envelope, with its error field set, and no request ends in an
\* unhandled fault.
C18_UniformEnvelope ==
    resp.served
        => /\ Outcome(resp.response) # "fault"
           /\ (Outcome(resp.response) \in Taxonomy
                  => /\ resp.response.envelope
                     /\ resp.response.error # None)

\* C20: the CRITICAL bucket holds as many tokens as the configured CRITICAL
\* rate limit (MCP_RATE_LIMIT_CRITICAL, 10 per hour by default): starting
\* from the full bucket, each of the first MCP_RATE_LIMIT_CRITICAL calls made
\* at the same instant passes the rate limiter.
C20_ConfiguredCapacity ==
    (resp.served /\ resp.limiter /\ now = 0 /\ calls <= MCP_RATE_LIMIT_CRITICAL)
        => Outcome(resp.response) # "rate_limited"

\* the last request carried a credential that is not the configured secret and
\* did not declare read-only while enforcement was on
WrongKey ==
    /\ resp.served
    /\ SAFE_MODE
    /\ resp.req.x_mcp_key = "wrong-key"
    /\ ~resp.req.x_mcp_readonly

\* C21: the Auth Gate is evaluated before the registry lookup: a request with
\* an invalid credential is rejected as unauthorized whether or not its tool
\* name is registered, so its answer does not depend on the registry.
C21_AuthBeforeLookup ==
    WrongKey => Outcome(resp.response) = "unauthorized"

\* C22: the X-MCP-ReadOnly header blocks write operations: a request that
\* carries X-MCP-ReadOnly=true never has invoke called, directly or in a
\* background task, on a CRITICAL tool, whatever key or approved marker it
\* also carries.
C22_ReadOnlyBlocksCritical ==
    (Registered /\ resp.req.x_mcp_readonly /\ Tool.rate_limit_level = "CRITICAL")
        => /\ resp.invoked = 0
           /\ resp.scheduled = 0

\* the requests in flight that got past the rate limiter
Passed == {p \in 1..MaxConcurrent : inflight[p].passed}

\* C23: the bucket's refill-then-consume step is atomic under every
\* interleaving of concurrent CRITICAL requests: with no time elapsing, each
\* request that gets past the rate limiter has taken a token of its own, so
\* the tokens left and the requests passed add up to the capacity and at most
\* max_tokens of the requests in flight pass.
C23_AtomicConsume ==
    /\ bucket.tokens + Cardinality(Passed) * refill_seconds = max_tokens * refill_seconds
    /\ Cardinality(Passed) <= max_tokens
    /\ \A p \in 1..MaxConcurrent :
          (inflight[p].pc \in {"awaiting", "done"} /\ ~inflight[p].passed)
              => inflight[p].response.status = 429

\* more requests than the bucket has tokens were in flight at once: as many as
\* there were tokens wait for invoke, and one was turned away
C23_Witness ==
    /\ Cardinality({p \in 1..MaxConcurrent : inflight[p].pc = "awaiting"}) = max_tokens
    /\ \E p \in 1..MaxConcurrent :
          inflight[p].pc = "done" /\ inflight[p].response.status = 429
    /\ bucket.tokens = 0

\* C24: after any sequence of can_consume calls at any clock readings,
\* increasing, equal or decreasing, the bucket holds at least no token and at
\* most max_tokens tokens.
C24_TokensInRange ==
    /\ bucket.tokens >= 0
    /\ bucket.tokens <= max_tokens * refill_seconds

\* can_consume ran at a clock reading earlier than the bucket's last refill
\* and found less than one token: the count stayed where it was
C24_Witness ==
    /\ resp.served /\ resp.limiter
    /\ resp.at < resp.before.last
    /\ resp.before.tokens < refill_seconds
    /\ Outcome(resp.response) = "rate_limited"
    /\ bucket = resp.before

\* the governance of a listed tool is missing, empty, or carries no tier
NoTier(g) == ~g.truthy \/ ~g.hasLevel \/ g.level = None

\* C25: every tool whose governance classification is missing, empty, or has
\* no tier value (level absent or null) is registered with the tier MEDIUM
\* and with approval_required false.
C25_DefaultTierMedium ==
    \A t \in provider.TOOLS :
        (provider.available /\ NoTier(t.governance))
            => /\ REGISTRY[t.name].rate_limit_level = "MEDIUM"
               /\ ~REGISTRY[t.name].approval_required

\* C26: the provider's invoke may be synchronous or asynchronous: for either
\* kind, a synchronous-mode request that runs invoke gets the success
\* envelope with invoke's value unless invoke itself raised, so no error
\* envelope is returned for a tool that has run and returned.
C26_SyncOrAsyncInvoke ==
    (resp.served /\ resp.invoked = 1)
        => \/ /\ resp.response.success
              /\ resp.response.status = 200
              /\ resp.response.result = [kind |-> "payload"]
           \/ /\ ~resp.response.success
              /\ resp.response.error = "exception"

\* C27: tiers not wired to a bucket are unthrottled: a request for a tool of
\* a tier other than CRITICAL leaves the CRITICAL bucket as it found it, does
\* not call the rate limiter and is never answered rate-limited, whatever the
\* bucket holds.
C27_LowerTiersUnthrottled ==
    (Registered /\ Tool.rate_limit_level # "CRITICAL")
        => /\ bucket = resp.before
           /\ ~resp.limiter
           /\ Outcome(resp.response) # "rate_limited"

\* with the CRITICAL bucket drained, the bucket adapter ran a HIGH tool
C27_Witness ==
    /\ adapter = "v1347"
    /\ Registered
    /\ Tool.rate_limit_level = "HIGH"
    /\ bucket.tokens < refill_seconds
    /\ calls > max_tokens
    /\ resp.invoked = 1
    /\ Outcome(resp.response) = "result"

\* C28: a consumed token is never refunded: the token count goes up only
\* through the refill of a can_consume call made after time has passed, never
\* while no time has elapsed, and a call that got past the rate check leaves
\* the bucket one token under the refilled count whatever its outcome is.
C28_NeverRefunded ==
    [][/\ bucket'.tokens > bucket.tokens
            => (resp' # resp /\ resp'.limiter /\ now > bucket.last)
       /\ now <= bucket.last => bucket'.tokens <= bucket.tokens
       /\ (resp' # resp /\ resp'.limiter /\ resp'.response.status # 429)
            => bucket'.tokens = Refill(bucket, now).tokens - refill_seconds]_vars

\* a call made with no time elapsed since the last one ended in an execution
\* error and the bucket is one token down
C28_Witness ==
    /\ resp.served /\ resp.limiter
    /\ calls >= 2
    /\ resp.at = resp.before.last
    /\ Outcome(resp.response) = "execution_error"
    /\ bucket.tokens = resp.before.tokens - refill_seconds
    /\ bucket.tokens < (max_tokens - 1) * refill_seconds

C30_BackgroundFailureContained ==
    [][((bgTasks' < bgTasks \/ lastTask' # lastTask)
            /\ lastTask'.ended \in {"logged", "raised"})
          => /\ lastTask'.invoked = 1
             /\ bgTasks' = bgTasks - 1
             /\ resp' = resp
             /\ bucket' = bucket
             /\ memory' = memory
             /\ REGISTRY' = REGISTRY
             /\ inflight' = inflight
             /\ calls' = calls]_vars

\* the task that a request was acknowledged for has failed with the
\* exception raised inside it; the acknowledgment stands and no task is left
C30_Witness ==
    /\ adapter = "v407"
    /\ lastTask.ran
    /\ lastTask.ended = "raised"
    /\ bgTasks = 0
    /\ resp.served
    /\ resp.scheduled = 1
    /\ Outcome(resp.response) = "background_ack"
    /\ resp.response.status = 202

====
